---- MODULE Spec2Model ----
(***************************************************************************)
(* CLReductionOperation (src/runtime/CL/functions/CLReductionOperation.cpp)*)
(* The function plans a reduction as a chain of kernels over intermediate  *)
(* tensors (validate / configure) and enqueues them on the CL queue (run). *)
(* Stage and buffer indices are the 0-based indices of the source;         *)
(* sequences are 1-based, so element i of an array is at position i + 1.   *)
(***************************************************************************)
EXTENDS Integers, Sequences, FiniteSets, TLC

VARIABLES
    input,                      \* ITensorInfo of the caller's input tensor
    output,                     \* ITensorInfo of the caller's output tensor
    op,                         \* ReductionOperation the caller requests
    unsupportedExtents,         \* axis-0 extents the kernel's validate rejects
    _num_of_stages,
    _reduction_axis,
    _is_quantized,
    _sums_vector,
    _reduction_kernels_vector,
    _border_handlers_vector,
    _memory_group,
    cfgArgs,                    \* axis and op of the most recent configure call
    cfgLog,                     \* calls the most recent configure made, in order
    halted,                     \* ARM_COMPUTE_ERROR was raised
    vArgs,                      \* axis and op of the most recent validate call
    vResult,                    \* what the most recent validate call computed
    vTick,                      \* flips at every validate call
    queue,                      \* CLScheduler's command queue: work not yet executed
    runLog,                     \* calls the most recent run made, in order
    executed,                   \* the work the device executed last, oldest first
    planInput,                  \* stage planning alone: the tensor info
    planAxis,                   \*                        the axis
    planResult                  \*                        stage count and shapes

vars == << input, output, op, unsupportedExtents, _num_of_stages, _reduction_axis,
           _is_quantized, _sums_vector, _reduction_kernels_vector,
           _border_handlers_vector, _memory_group, cfgArgs, cfgLog, halted,
           vArgs, vResult, vTick, queue, runLog, executed, planInput, planAxis,
           planResult >>

(***************************************************************************)
(* Bounds of the model.                                                    *)
(***************************************************************************)
\* Stage planning is checked for every axis-0 extent 0..MaxWidth.
MaxWidth == 33000
\* run is called only while at most MaxPending submissions are still queued.
MaxPending == 1
\* How many of the device's most recent executions the model remembers.
ExecWindow == 2

(***************************************************************************)
(* Program constants.                                                      *)
(***************************************************************************)
\* Elements reduced by one work-group: 16 elements per thread, 8 threads.
WGSize == 128
\* Significant bits of a float (the 128.f divisions are float divisions).
FloatMantissaBits == 24
\* The constant term of the stage count.
BaseStages == 2

DataTypes == {"F32", "QASYMM8"}
ReductionOperations == {"SUM", "MEAN_SUM", "SUM_SQUARE", "OTHER"}
Axes == {0, 1}

\* Axis-0 extents beyond 2^24, where unsigned -> float conversion rounds.
LargeWidths == {16777217, 16793473, 16793475}

TensorInfo(x, y, dt) == [shape |-> <<x, y>>, data_type |-> dt, num_channels |-> 1]

is_data_type_quantized(dt) == dt = "QASYMM8"

RECURSIVE Pow2(_)
Pow2(k) == IF k = 0 THEN 1 ELSE 2 * Pow2(k - 1)

\* The unit in the last place of the float nearest to n: 1 up to 2^24.
RECURSIVE Ulp(_, _)
Ulp(n, u) == IF n < u * Pow2(FloatMantissaBits) THEN u ELSE Ulp(n, 2 * u)

\* unsigned -> float conversion: round to nearest, ties to even.
ToFloat(n) ==
    LET u == Ulp(n, 1)
        q == n \div u
        r == n % u
    IN  IF 2 * r < u THEN q * u
        ELSE IF 2 * r > u THEN (q + 1) * u
        ELSE IF q % 2 = 0 THEN q * u
        ELSE (q + 1) * u

\* ceil(n / 128.f): the division by a power of two is exact.
CeilDivWGBroken(n) == ToFloat(n) \div WGSize
CeilDivWG(n) == (ToFloat(n) + (WGSize - 1)) \div WGSize

\* (a variant with a fixed count of two stages on the staged path)
calculate_number_of_stages_two(info, axis) ==
    IF axis # 0 \/ (axis = 0 /\ is_data_type_quantized(info.data_type))
    THEN 1
    ELSE BaseStages
calculate_number_of_stages_offbyone(info, axis) ==
    IF axis # 0 \/ (axis = 0 /\ is_data_type_quantized(info.data_type))
    THEN 1
    ELSE CeilDivWG(info.shape[1]) \div WGSize + 1
calculate_number_of_stages(info, axis) ==
    IF axis # 0 \/ (axis = 0 /\ is_data_type_quantized(info.data_type))
    THEN 1
    ELSE LET num_of_wg == CeilDivWG(info.shape[1])
         IN  num_of_wg \div WGSize + BaseStages

\* shape.set(0, ceil(shape.x() / 128.f))
ReduceShape(shape) == [shape EXCEPT ![1] = CeilDivWG(shape[1])]

\* The shapes of the count intermediate tensors, each reduced from the one before
\* (the loop is unfolded by halves to keep the evaluation shallow).
RECURSIVE IntermediateShapes(_, _)
IntermediateShapes(shape, count) ==
    IF count = 0 THEN << >>
    ELSE IF count = 1 THEN << ReduceShape(shape) >>
    ELSE LET half == count \div 2
             head == IntermediateShapes(shape, half)
         IN  head \o IntermediateShapes(head[half], count - half)

(***************************************************************************)
(* Tensors and kernel calls.                                               *)
(***************************************************************************)
InputRef == [t |-> "input", i |-> 0]
OutputRef == [t |-> "output", i |-> 0]
SumRef(i) == [t |-> "sums", i |-> i]

\* The value of the kernel's width parameter when the caller leaves it out.
DefaultWidth == 0

\* One call of CLReductionOperationKernel::validate or ::configure.
KernelCall(in, in_info, out, out_info, axis, kernel_op, width) ==
    [input |-> in, input_info |-> in_info, output |-> out, output_info |-> out_info,
     axis |-> axis, op |-> kernel_op, width |-> width]

NoInfo == [shape |-> <<0, 0>>, data_type |-> "UNKNOWN", num_channels |-> 0]
NoRef == [t |-> "none", i |-> 0]
NoKernel == [configured |-> FALSE,
             call |-> KernelCall(NoRef, NoInfo, NoRef, NoInfo, 0, "NONE", 0)]
NoBorder == [configured |-> FALSE, tensor |-> NoRef, mode |-> "NONE", value |-> 0]

\* CLReductionOperationKernel::validate: a deterministic verdict on one call.
KernelValidate(c, rejected) ==
    IF c.input_info.shape[1] \in rejected THEN "SHAPE_MISMATCH"
    ELSE IF c.output_info.data_type # c.input_info.data_type THEN "TYPE_MISMATCH"
    ELSE "OK"

(***************************************************************************)
(* The switch on op of validate and configure.                             *)
(***************************************************************************)
OpSupported(o) == o \in {"SUM", "MEAN_SUM", "SUM_SQUARE"}

first_kernel_op_swapped(o) == IF o = "SUM_SQUARE" THEN "SUM" ELSE "SUM_SQUARE"
first_kernel_op(o) == IF o = "SUM_SQUARE" THEN "SUM_SQUARE" ELSE "SUM"

last_kernel_op_same(o) == o
last_kernel_op(o) == IF o = "SUM_SQUARE" THEN "SUM" ELSE o

(***************************************************************************)
(* CLReductionOperation::validate                                          *)
(***************************************************************************)
\* sums_vector[i] of validate: data type, shape and channels set one by one.
ValidateSumInfo(in, shape) ==
    [shape |-> shape, data_type |-> in.data_type, num_channels |-> in.num_channels]

ValidateSums(in, num_of_stages) ==
    LET shapes == IntermediateShapes(in.shape, num_of_stages - 1)
    IN  [i \in 1..(num_of_stages - 1) |-> ValidateSumInfo(in, shapes[i])]

ValidateLastWidthOfBuffer(in, sums) == sums[Len(sums)].shape[1]
ValidateLastWidth(in, sums) == in.shape[1]

\* The kernel validations of the staged path, in the order of the source.
ValidateStagedCalls(in, out, axis, o) ==
    LET num_of_stages == calculate_number_of_stages(in, axis)
        sums == ValidateSums(in, num_of_stages)
        last_stage == num_of_stages - 1
        first == KernelCall(InputRef, in, SumRef(0), sums[1], axis,
                            first_kernel_op(o), DefaultWidth)
        middle == [i \in 1..(num_of_stages - 2) |->
                     KernelCall(SumRef(i - 1), sums[i], SumRef(i), sums[i + 1],
                                axis, "SUM", DefaultWidth)]
        last == KernelCall(SumRef(last_stage - 1), sums[last_stage], OutputRef, out,
                           axis, last_kernel_op(o), ValidateLastWidth(in, sums))
    IN  <<first>> \o middle \o <<last>>

ValidateSingleCall(in, out, axis, o) ==
    << KernelCall(InputRef, in, OutputRef, out, axis, o, DefaultWidth) >>

\* (a variant that goes on after a failure and returns the last status)
ReturnOnErrorNoStop(calls, k, rejected) ==
    [status |-> KernelValidate(calls[Len(calls)], rejected), calls |-> calls]

\* ARM_COMPUTE_RETURN_ON_ERROR: the calls made up to the first one that fails.
RECURSIVE ReturnOnError(_, _, _)
ReturnOnError(calls, k, rejected) ==
    IF k > Len(calls) THEN [status |-> "OK", calls |-> calls]
    ELSE IF KernelValidate(calls[k], rejected) # "OK"
         THEN [status |-> KernelValidate(calls[k], rejected),
               calls |-> SubSeq(calls, 1, k)]
         ELSE ReturnOnError(calls, k + 1, rejected)

\* What ARM_COMPUTE_ERROR("Not supported") does: it raises the error (an
\* exception or an abort), it does not return a Status.
NotSupportedReturned == "ERROR_STATUS"
NotSupported == "ARM_COMPUTE_ERROR"

validate(in, out, axis, o, rejected) ==
    LET num_of_stages == calculate_number_of_stages(in, axis)
    IN  IF axis = 0 /\ ~is_data_type_quantized(in.data_type)
        THEN IF ~OpSupported(o)
             THEN [status |-> NotSupported, num_of_stages |-> num_of_stages,
                   shapes |-> IntermediateShapes(in.shape, num_of_stages - 1),
                   calls |-> << >>]
             ELSE LET r == ReturnOnError(ValidateStagedCalls(in, out, axis, o), 1,
                                         rejected)
                  IN  [status |-> r.status, num_of_stages |-> num_of_stages,
                       shapes |-> IntermediateShapes(in.shape, num_of_stages - 1),
                       calls |-> r.calls]
        ELSE LET r == ReturnOnError(ValidateSingleCall(in, out, axis, o), 1, rejected)
             IN  [status |-> r.status, num_of_stages |-> num_of_stages,
                  shapes |-> << >>, calls |-> r.calls]

(***************************************************************************)
(* CLReductionOperation::configure                                         *)
(* The members are gathered in a record p, each statement maps p to p.     *)
(***************************************************************************)
Members ==
    [num_of_stages |-> _num_of_stages, reduction_axis |-> _reduction_axis,
     is_quantized |-> _is_quantized, sums |-> _sums_vector,
     kernels |-> _reduction_kernels_vector, borders |-> _border_handlers_vector,
     log |-> << >>, error |-> FALSE]

Logged(p, call, i) == [p EXCEPT !.log = Append(@, [call |-> call, i |-> i])]

\* _memory_group.manage(_sums_vector.get() + i)
Manage(p, i) ==
    Logged([p EXCEPT !.sums[i + 1].managed = TRUE], "manage", i)

\* _sums_vector[i].allocator()->allocate()
Allocate(p, i) ==
    Logged([p EXCEPT !.sums[i + 1].allocated = TRUE], "allocate", i)

\* _reduction_kernels_vector[i].configure(...)
KernelConfigure(p, i, c) ==
    Logged([p EXCEPT !.kernels[i + 1] = [configured |-> TRUE, call |-> c]],
           "kernel.configure", i)

\* _border_handlers_vector[i].configure(tensor, border_size, CONSTANT, PixelValue(0))
BorderConfigure(p, i, tensor) ==
    Logged([p EXCEPT !.borders[i + 1] =
                [configured |-> TRUE, tensor |-> tensor, mode |-> "CONSTANT",
                 value |-> 0]],
           "border.configure", i)

ConfigureSumInfoKeepShape(in, shape) == in
\* _sums_vector[i].allocator()->init(input->info()->clone()->set_tensor_shape(shape))
ConfigureSumInfo(in, shape) == [in EXCEPT !.shape = shape]

RECURSIVE InitSums(_, _, _, _)
InitSums(p, in, shape, i) ==
    IF ~(i < p.num_of_stages - 1) THEN p
    ELSE LET s == ReduceShape(shape)
             q == [p EXCEPT !.sums[i + 1].info = ConfigureSumInfo(in, s)]
         IN  InitSums(Logged(q, "init", i), in, s, i + 1)

\* (a variant that lets every intermediate stage write _sums_vector[0])
RECURSIVE ConfigureMiddleSameBuffer(_, _, _)
ConfigureMiddleSameBuffer(p, axis, i) ==
    IF ~(i < p.num_of_stages - 1) THEN p
    ELSE LET p1 == Manage(p, i)
             p2 == KernelConfigure(p1, i,
                       KernelCall(SumRef(i - 1), p1.sums[i].info,
                                  SumRef(0), p1.sums[1].info,
                                  axis, "SUM", DefaultWidth))
             p3 == BorderConfigure(p2, i, SumRef(i - 1))
             p4 == Allocate(p3, i - 1)
         IN  ConfigureMiddleSameBuffer(p4, axis, i + 1)

\* (a variant that allocates the stage's input before registering its output)
RECURSIVE ConfigureMiddleAllocFirst(_, _, _)
ConfigureMiddleAllocFirst(p, axis, i) ==
    IF ~(i < p.num_of_stages - 1) THEN p
    ELSE LET p0 == Allocate(p, i - 1)
             p1 == Manage(p0, i)
             p2 == KernelConfigure(p1, i,
                       KernelCall(SumRef(i - 1), p1.sums[i].info,
                                  SumRef(i), p1.sums[i + 1].info,
                                  axis, "SUM", DefaultWidth))
             p3 == BorderConfigure(p2, i, SumRef(i - 1))
         IN  ConfigureMiddleAllocFirst(p3, axis, i + 1)

\* The loop over the intermediate stages, from stage i on.
RECURSIVE ConfigureMiddle(_, _, _)
ConfigureMiddle(p, axis, i) ==
    IF ~(i < p.num_of_stages - 1) THEN p
    ELSE LET p1 == Manage(p, i)
             p2 == KernelConfigure(p1, i,
                       KernelCall(SumRef(i - 1), p1.sums[i].info,
                                  SumRef(i), p1.sums[i + 1].info,
                                  axis, "SUM", DefaultWidth))
             p3 == BorderConfigure(p2, i, SumRef(i - 1))
             p4 == Allocate(p3, i - 1)
         IN  ConfigureMiddle(p4, axis, i + 1)

ConfigureLastWidthOfBuffer(in, p) == p.sums[p.num_of_stages - 1].info.shape[1]
ConfigureLastWidth(in, p) == in.shape[1]

\* (a variant that allocates the last intermediate tensor before the last
\* kernel, its consumer, is configured)
ConfigureLastAllocFirst(p, in, out, axis, o) ==
    LET last_stage == p.num_of_stages - 1
        input_width == ConfigureLastWidth(in, p)
        p0 == Allocate(p, last_stage - 1)
        p1 == KernelConfigure(p0, last_stage,
                  KernelCall(SumRef(last_stage - 1), p0.sums[last_stage].info,
                             OutputRef, out, axis, last_kernel_op(o), input_width))
    IN  BorderConfigure(p1, last_stage, SumRef(last_stage - 1))
\* (a variant that allocates _sums_vector[last_stage] instead of [last_stage - 1])
ConfigureLastAllocOff(p, in, out, axis, o) ==
    LET last_stage == p.num_of_stages - 1
        input_width == ConfigureLastWidth(in, p)
        p1 == KernelConfigure(p, last_stage,
                  KernelCall(SumRef(last_stage - 1), p.sums[last_stage].info,
                             OutputRef, out, axis, last_kernel_op(o), input_width))
        p2 == BorderConfigure(p1, last_stage, SumRef(last_stage - 1))
    IN  Logged(p2, "allocate", last_stage)
ConfigureLast(p, in, out, axis, o) ==
    LET last_stage == p.num_of_stages - 1
        input_width == ConfigureLastWidth(in, p)
        p1 == KernelConfigure(p, last_stage,
                  KernelCall(SumRef(last_stage - 1), p.sums[last_stage].info,
                             OutputRef, out, axis, last_kernel_op(o), input_width))
        p2 == BorderConfigure(p1, last_stage, SumRef(last_stage - 1))
    IN  Allocate(p2, last_stage - 1)

ConfigureStaged(p, in, out, axis, o) ==
    LET n == p.num_of_stages
        p1 == [p EXCEPT !.borders = [i \in 1..n |-> NoBorder],
                        !.sums = [i \in 1..(n - 1) |->
                                    [info |-> NoInfo, managed |-> FALSE,
                                     allocated |-> FALSE]]]
        p2 == InitSums(p1, in, in.shape, 0)
        p3 == Manage(p2, 0)
    IN  IF ~OpSupported(o)
        THEN [p3 EXCEPT !.error = TRUE]
        ELSE LET p4 == KernelConfigure(p3, 0,
                           KernelCall(InputRef, in, SumRef(0), p3.sums[1].info,
                                      axis, first_kernel_op(o), DefaultWidth))
                 p5 == BorderConfigure(p4, 0, InputRef)
                 p6 == ConfigureMiddle(p5, axis, 1)
             IN  ConfigureLast(p6, in, out, axis, o)

ConfigureSingleWithBorder(p, in, out, axis, o) ==
    BorderConfigure(
        KernelConfigure(p, 0, KernelCall(InputRef, in, OutputRef, out, axis, o, 0)),
        0, InputRef)
ConfigureSingle(p, in, out, axis, o) ==
    KernelConfigure(p, 0, KernelCall(InputRef, in, OutputRef, out, axis, o, 0))

configure(p, in, out, axis, o) ==
    LET n == calculate_number_of_stages(in, axis)
        quantized == is_data_type_quantized(in.data_type)
        p1 == [p EXCEPT !.num_of_stages = n, !.reduction_axis = axis,
                        !.is_quantized = quantized,
                        !.kernels = [i \in 1..n |-> NoKernel]]
    IN  IF axis = 0 /\ ~quantized
        THEN ConfigureStaged(p1, in, out, axis, o)
        ELSE ConfigureSingle(p1, in, out, axis, o)

\* CLReductionOperationKernel::configure requires a call its validate accepts.
KernelsAccept(p, rejected) ==
    \A k \in 1..Len(p.kernels) :
        p.kernels[k].configured => KernelValidate(p.kernels[k].call, rejected) = "OK"

(***************************************************************************)
(* CLReductionOperation::run                                               *)
(* The calls of one run, in order; r is [log, queue, acquired].            *)
(***************************************************************************)
Acquire(r) ==
    [r EXCEPT !.acquired = TRUE, !.log = Append(@, [call |-> "acquire", i |-> 0])]

Release(r) ==
    [r EXCEPT !.acquired = FALSE, !.log = Append(@, [call |-> "release", i |-> 0])]

\* CLScheduler::get().enqueue(kernel, false)
EnqueueBlocking(r, kind, i, work) ==
    [r EXCEPT !.queue = Append(@, [kind |-> kind, stage |-> i, work |-> work,
                                   blocking |-> TRUE]),
              !.log = Append(@, [call |-> kind, i |-> i])]
Enqueue(r, kind, i, work) ==
    [r EXCEPT !.queue = Append(@, [kind |-> kind, stage |-> i, work |-> work,
                                   blocking |-> FALSE]),
              !.log = Append(@, [call |-> kind, i |-> i])]

\* What the queue holds of a border handler and of a reduction kernel.
BorderWork(b) == KernelCall(b.tensor, NoInfo, b.tensor, NoInfo, 0, b.mode, b.value)
KernelWork(k) == k.call

RunStageKernelFirst(r, i) ==
    Enqueue(Enqueue(r, "kernel", i, KernelWork(_reduction_kernels_vector[i + 1])),
            "border", i, BorderWork(_border_handlers_vector[i + 1]))
RunStage(r, i) ==
    Enqueue(Enqueue(r, "border", i, BorderWork(_border_handlers_vector[i + 1])),
            "kernel", i, KernelWork(_reduction_kernels_vector[i + 1]))

RECURSIVE RunStagesDescending(_, _)
RunStagesDescending(r, i) ==
    IF ~(i < _num_of_stages) THEN r
    ELSE RunStage(RunStagesDescending(r, i + 1), i)
RECURSIVE RunStages(_, _)
RunStages(r, i) ==
    IF ~(i < _num_of_stages) THEN r
    ELSE RunStages(RunStage(r, i), i + 1)

RunPathAxisOnly == _reduction_axis = 0
RunPath == _reduction_axis = 0 /\ ~_is_quantized

ReleaseFirst(r) ==
    LET r1 == Release(Acquire(r))
    IN  IF RunPath THEN RunStages(r1, 0)
        ELSE Enqueue(r1, "kernel", 0, KernelWork(_reduction_kernels_vector[1]))
run(r) ==
    LET r1 == Acquire(r)
        r2 == IF RunPath
              THEN RunStages(r1, 0)
              ELSE Enqueue(r1, "kernel", 0, KernelWork(_reduction_kernels_vector[1]))
    IN  Release(r2)

(***************************************************************************)
(* The state machine.                                                      *)
(***************************************************************************)
NoArgs == [axis |-> -1, op |-> "NONE"]
NoResult == [status |-> "NONE", num_of_stages |-> 0, shapes |-> << >>, calls |-> << >>]

\* Axis-0 extents of the caller's input: the smallest ones, and extents of 2, 3
\* and 4 stages on the staged path.
Widths == {0, 1, 100, 16257, 32641}

memberVars == << _num_of_stages, _reduction_axis, _is_quantized, _sums_vector,
                 _reduction_kernels_vector, _border_handlers_vector, _memory_group >>
callerVars == << input, output, op, unsupportedExtents >>
planVars == << planInput, planAxis, planResult >>
validateVars == << vArgs, vResult, vTick >>

\* The constructor: vectors empty, the scalar members value-initialised.
InitMembers ==
    /\ _num_of_stages = 0
    /\ _reduction_axis = 0
    /\ _is_quantized = FALSE
    /\ _sums_vector = << >>
    /\ _reduction_kernels_vector = << >>
    /\ _border_handlers_vector = << >>
    /\ _memory_group = [acquired |-> FALSE]
    /\ cfgArgs = NoArgs
    /\ cfgLog = << >>
    /\ halted = FALSE
    /\ vArgs = NoArgs
    /\ vResult = NoResult
    /\ vTick = FALSE
    /\ queue = << >>
    /\ runLog = << >>
    /\ executed = << >>

Init ==
    /\ input \in {TensorInfo(w, 3, dt) : w \in Widths, dt \in DataTypes}
    /\ output \in {TensorInfo(1, 3, dt) : dt \in DataTypes}
    /\ op \in ReductionOperations
    /\ unsupportedExtents \in {{}, {256}, {100}}
    /\ InitMembers
    /\ planInput = NoInfo
    /\ planAxis = 0
    /\ planResult = NoResult

\* validate is static and takes its tensor infos as pointers to const.
ValidateFrameLeaky ==
    /\ _sums_vector' = IF vResult'.status = "OK" /\ vResult'.num_of_stages > 1
                       THEN [i \in 1..(vResult'.num_of_stages - 1) |->
                               [info |-> ValidateSumInfo(input, vResult'.shapes[i]),
                                managed |-> TRUE, allocated |-> TRUE]]
                       ELSE _sums_vector
    /\ UNCHANGED << callerVars, planVars, _num_of_stages, _reduction_axis,
                    _is_quantized, _reduction_kernels_vector, _border_handlers_vector,
                    _memory_group, cfgArgs, cfgLog, queue, runLog, executed >>
ValidateFrame ==
    UNCHANGED << callerVars, planVars, memberVars, cfgArgs, cfgLog, queue, runLog,
                 executed >>

Validate ==
    /\ ~halted
    /\ \E axis \in Axes :
        /\ vArgs' = [axis |-> axis, op |-> op]
        /\ vResult' = validate(input, output, axis, op, unsupportedExtents)
    /\ vTick' = ~vTick
    /\ halted' = (vResult'.status = NotSupported)
    /\ ValidateFrame

Configure ==
    /\ ~halted
    /\ \E axis \in Axes :
        LET p == configure(Members, input, output, axis, op)
        IN  /\ KernelsAccept(p, unsupportedExtents)
            /\ cfgArgs' = [axis |-> axis, op |-> op]
            /\ _num_of_stages' = p.num_of_stages
            /\ _reduction_axis' = p.reduction_axis
            /\ _is_quantized' = p.is_quantized
            /\ _sums_vector' = p.sums
            /\ _reduction_kernels_vector' = p.kernels
            /\ _border_handlers_vector' = p.borders
            /\ cfgLog' = p.log
            /\ halted' = p.error
    /\ UNCHANGED << callerVars, planVars, validateVars, _memory_group, queue, runLog,
                    executed >>

\* run is given no tensor and no argument; it writes no member but the memory
\* group's claim.
RunFrameFreesBuffers ==
    /\ _sums_vector' = [i \in DOMAIN _sums_vector |->
                           [_sums_vector[i] EXCEPT !.allocated = FALSE]]
    /\ UNCHANGED << callerVars, planVars, validateVars, _num_of_stages,
                    _reduction_axis, _is_quantized,
                    _reduction_kernels_vector, _border_handlers_vector,
                    cfgArgs, cfgLog, halted, executed >>
RunFrame ==
    UNCHANGED << callerVars, planVars, validateVars, _num_of_stages,
                 _reduction_axis, _is_quantized, _sums_vector,
                 _reduction_kernels_vector, _border_handlers_vector,
                 cfgArgs, cfgLog, halted, executed >>

Run ==
    /\ ~halted
    /\ Len(queue) <= MaxPending
    /\ LET r == run([log |-> << >>, queue |-> queue,
                     acquired |-> _memory_group.acquired])
       IN  /\ queue' = r.queue
           /\ runLog' = r.log
           /\ _memory_group' = [_memory_group EXCEPT !.acquired = r.acquired]
    /\ RunFrame

\* The last n elements of a sequence.
LastN(s, n) == IF Len(s) <= n THEN s ELSE SubSeq(s, Len(s) - n + 1, Len(s))

\* The device executes the queue in order.
DeviceExecute ==
    /\ queue # << >>
    /\ queue' = Tail(queue)
    /\ executed' = LastN(Append(executed, Head(queue)), ExecWindow)
    /\ UNCHANGED << callerVars, planVars, validateVars, memberVars, cfgArgs, cfgLog,
                    halted, runLog >>

Next == Validate \/ Configure \/ Run \/ DeviceExecute

Spec == Init /\ [][Next]_vars

(***************************************************************************)
(* Stage planning alone, over every axis-0 extent up to MaxWidth.          *)
(***************************************************************************)
InitPlan ==
    /\ input = TensorInfo(100, 3, "F32")
    /\ output = TensorInfo(1, 3, "F32")
    /\ op = "SUM"
    /\ unsupportedExtents = {}
    /\ InitMembers
    /\ planInput \in {TensorInfo(w, 3, dt) :
                        w \in (0..MaxWidth) \cup LargeWidths, dt \in DataTypes}
    /\ planAxis \in Axes
    /\ planResult = NoResult

PlanStages ==
    /\ planResult = NoResult
    /\ LET n == calculate_number_of_stages(planInput, planAxis)
       IN  planResult' =
             [status |-> "PLANNED", num_of_stages |-> n,
              shapes |-> IF planAxis = 0 /\ ~is_data_type_quantized(planInput.data_type)
                         THEN IntermediateShapes(planInput.shape, n - 1)
                         ELSE << >>,
              calls |-> << >>]
    /\ UNCHANGED << callerVars, memberVars, cfgArgs, cfgLog, halted, validateVars,
                    queue, runLog, executed, planInput, planAxis >>

NextPlan == PlanStages

SpecPlan == InitPlan /\ [][NextPlan]_vars

(***************************************************************************)
(* Properties.                                                             *)
(***************************************************************************)
\* Integer ceiling of a / b, and the largest extent a float holds exactly.
CeilDiv(a, b) == (a + b - 1) \div b
ExactFloatMax == Pow2(FloatMantissaBits)

Staged(info, axis) == axis = 0 /\ info.data_type # "QASYMM8"
Planned == planResult.status = "PLANNED"
Configured == cfgArgs # NoArgs
Validated == vArgs # NoArgs

\* C1: for axis 0 and a non-quantized input of axis-0 extent d (d exactly
\* representable as a float), the stage count is floor(ceil(d/128)/128) + 2.
C1_StageCountFormula ==
    (Planned /\ Staged(planInput, planAxis) /\ planInput.shape[1] <= ExactFloatMax)
        => planResult.num_of_stages = CeilDiv(planInput.shape[1], 128) \div 128 + 2

C1_Witness ==
    /\ Planned /\ Staged(planInput, planAxis)
    /\ planInput.shape[1] = 16000
    /\ CeilDiv(planInput.shape[1], 128) = 125
    /\ planResult.num_of_stages = 2

\* C2: with axis # 0 or a quantized input, configure computes one stage, creates
\* no intermediate tensor and no border handler, and configures exactly one
\* kernel: caller's input to caller's output, the requested op, width 0.
C2_SingleKernel ==
    (Configured /\ ~Staged(input, cfgArgs.axis)) =>
        /\ _num_of_stages = 1
        /\ Len(_reduction_kernels_vector) = 1
        /\ cfgLog = << [call |-> "kernel.configure", i |-> 0] >>
        /\ _reduction_kernels_vector[1].configured
        /\ _reduction_kernels_vector[1].call =
             [input |-> InputRef, input_info |-> input, output |-> OutputRef,
              output_info |-> output, axis |-> cfgArgs.axis, op |-> cfgArgs.op,
              width |-> 0]

C2_Witness ==
    /\ Configured /\ cfgArgs.axis = 0
    /\ input.data_type = "QASYMM8" /\ input.shape[1] = 32641
    /\ _num_of_stages = 1 /\ Len(cfgLog) = 1

\* The extents chain[1..n] follow from first by repeated ceil(/128).
ChainFrom(first, chain) ==
    \A i \in 1..Len(chain) :
        chain[i] = CeilDiv(IF i = 1 THEN first ELSE chain[i - 1], 128)

\* C3: on the staged path configure creates number_of_stages - 1 intermediate
\* tensors; the axis-0 extent of each is ceil(/128) of the one before (of the
\* input for the first), every other extent, the data type and the channel
\* count are the input's. validate derives the same chain of shapes.
C3_IntermediateTensors ==
    /\ (Configured /\ Staged(input, cfgArgs.axis)) =>
        /\ Len(_sums_vector) = _num_of_stages - 1
        /\ Cardinality({k \in 1..Len(cfgLog) : cfgLog[k].call = "init"})
             = _num_of_stages - 1
        /\ ChainFrom(input.shape[1],
                     [i \in 1..Len(_sums_vector) |-> _sums_vector[i].info.shape[1]])
        /\ \A i \in 1..Len(_sums_vector) :
              /\ _sums_vector[i].info.shape[2] = input.shape[2]
              /\ _sums_vector[i].info.data_type = input.data_type
              /\ _sums_vector[i].info.num_channels = input.num_channels
    /\ (Validated /\ Staged(input, vArgs.axis)) =>
        /\ Len(vResult.shapes) = vResult.num_of_stages - 1
        /\ ChainFrom(input.shape[1],
                     [i \in 1..Len(vResult.shapes) |-> vResult.shapes[i][1]])
        /\ \A i \in 1..Len(vResult.shapes) : vResult.shapes[i][2] = input.shape[2]

C3_Witness ==
    /\ Configured /\ Staged(input, cfgArgs.axis)
    /\ input.shape[1] = 32641
    /\ Len(_sums_vector) = 3
    /\ _sums_vector[1].info.shape[1] = 256
    /\ _sums_vector[2].info.shape[1] = 2
    /\ _sums_vector[3].info.shape[1] = 1

\* The shapes and kernel calls of the configured function.
ConfiguredShapes ==
    IF Staged(input, cfgArgs.axis)
    THEN [i \in 1..Len(_sums_vector) |-> _sums_vector[i].info.shape]
    ELSE << >>
ConfiguredCalls ==
    [k \in 1..Len(_reduction_kernels_vector) |-> _reduction_kernels_vector[k].call]

\* C4: for arguments validate accepts, validate and configure derive the same
\* stage count and intermediate shapes, and the kernel calls validate checks
\* are, stage by stage, the kernel calls configure makes.
C4_ValidateMatchesConfigure ==
    (Validated /\ vResult.status = "OK" /\ cfgArgs = vArgs) =>
        /\ vResult.num_of_stages = _num_of_stages
        /\ vResult.shapes = ConfiguredShapes
        /\ vResult.calls = ConfiguredCalls

C4_Witness ==
    /\ Validated /\ vResult.status = "OK" /\ cfgArgs = vArgs
    /\ Staged(input, vArgs.axis)
    /\ _num_of_stages = 4 /\ Len(vResult.calls) = 4

\* The kind the claim gives stage i (0-based) of n stages for op o.
StageKind(o, i, n) ==
    IF i = 0 THEN (IF o = "SUM_SQUARE" THEN "SUM_SQUARE" ELSE "SUM")
    ELSE IF i < n - 1 THEN "SUM"
    ELSE (IF o = "SUM_SQUARE" THEN "SUM" ELSE o)

C6_LastStageWidth ==
    /\ (Configured /\ Staged(input, cfgArgs.axis) /\ OpSupported(cfgArgs.op)) =>
        \A k \in 1..Len(_reduction_kernels_vector) :
            _reduction_kernels_vector[k].call.width
                = IF k = _num_of_stages THEN input.shape[1] ELSE 0
    /\ (Validated /\ Staged(input, vArgs.axis) /\ OpSupported(vArgs.op)) =>
        \A k \in 1..Len(vResult.calls) :
            vResult.calls[k].width
                = IF k = vResult.num_of_stages THEN input.shape[1] ELSE 0

C6_Witness ==
    /\ Configured /\ Staged(input, cfgArgs.axis) /\ cfgArgs.op = "MEAN_SUM"
    /\ _num_of_stages = 4
    /\ _reduction_kernels_vector[4].call.width = 32641
    /\ _reduction_kernels_vector[4].call.input_info.shape[1] = 1
    /\ vArgs = cfgArgs /\ Len(vResult.calls) = 4
    /\ vResult.calls[4].width = 32641

\* The submissions (kind, stage) the claim gives one run of n stages.
StagedSubmissions(n) ==
    [k \in 1..(2 * n) |->
        [kind |-> IF k % 2 = 1 THEN "border" ELSE "kernel", stage |-> (k - 1) \div 2]]
SingleSubmission == << [kind |-> "kernel", stage |-> 0] >>

\* The submissions a step adds at the end of the queue.
Issued ==
    [k \in 1..(Len(queue') - Len(queue)) |->
        [kind |-> queue'[Len(queue) + k].kind, stage |-> queue'[Len(queue) + k].stage]]

\* C7: a run of a function configured for the staged path issues 2 * stage
\* count submissions, stages ascending, each stage's border handler before its
\* kernel; a run of one configured for the other path issues the one kernel.
C7_RunSubmissions ==
    [][(Configured /\ Len(queue') > Len(queue)) =>
          /\ SubSeq(queue', 1, Len(queue)) = queue
          /\ Issued = IF Staged(input, cfgArgs.axis)
                      THEN StagedSubmissions(
                               CeilDiv(input.shape[1], 128) \div 128 + 2)
                      ELSE SingleSubmission
          /\ runLog' = << [call |-> "acquire", i |-> 0] >>
                       \o [k \in 1..Len(Issued) |->
                             [call |-> Issued[k].kind, i |-> Issued[k].stage]]
                       \o << [call |-> "release", i |-> 0] >>]_vars

C7_Witness ==
    /\ Configured /\ Staged(input, cfgArgs.axis)
    /\ _num_of_stages = 4
    /\ Len(runLog) = 10
    /\ Len(queue) = 8
    /\ queue[1].kind = "border" /\ queue[1].stage = 0
    /\ queue[8].kind = "kernel" /\ queue[8].stage = 3

\* C8: every run acquires the memory group once, before its first submission,
\* and releases it once, after its last; no submission blocks, and the group
\* is released whether or not the device has executed the submitted work.
C8_AcquireRelease ==
    /\ ~_memory_group.acquired
    /\ runLog # << >> =>
        /\ Len(runLog) >= 2
        /\ runLog[1].call = "acquire"
        /\ runLog[Len(runLog)].call = "release"
        /\ \A k \in 2..(Len(runLog) - 1) : runLog[k].call \in {"border", "kernel"}
    /\ \A k \in 1..Len(queue) : ~queue[k].blocking

C8_Witness ==
    /\ Configured /\ Staged(input, cfgArgs.axis)
    /\ Len(runLog) = 10
    /\ runLog[10].call = "release"
    /\ ~_memory_group.acquired
    /\ Len(queue) = 8

\* C9: validate on the staged path with a kind other than SUM, MEAN_SUM and
\* SUM_SQUARE returns an unsupported-operation Status to its caller, the
\* process goes on, and no kernel validation has been made.
C9_UnsupportedKindReturned ==
    (Validated /\ Staged(input, vArgs.axis) /\ ~OpSupported(vArgs.op)) =>
        /\ vResult.status = NotSupportedReturned
        /\ ~halted
        /\ vResult.calls = << >>

\* C10: a call of validate changes neither the caller's tensor infos nor the
\* members, registers and allocates no tensor and submits nothing; a call
\* with the arguments of the call before it returns the same result.
C10_ValidateNoSideEffect ==
    [][(vTick' # vTick) =>
          /\ UNCHANGED << input, output, memberVars, cfgArgs, cfgLog, queue, runLog >>
          /\ (vArgs' = vArgs => vResult' = vResult)]_vars

C10_Witness ==
    /\ Validated /\ ~vTick
    /\ vResult.status = "SHAPE_MISMATCH"
    /\ Configured /\ _reduction_kernels_vector[1].configured
    /\ queue # << >>

\* A configure call that ran to its end (no ARM_COMPUTE_ERROR in its switch).
ConfiguredOk == Configured /\ (Staged(input, cfgArgs.axis) => OpSupported(cfgArgs.op))

\* C11: the configured stages form a chain: stage 0 reads the caller's input,
\* stage i reads the tensor stage i-1 writes, the last stage writes the
\* caller's output and every other stage i writes _sums_vector[i], its own.
C11_StageChain ==
    ConfiguredOk =>
        LET n == Len(_reduction_kernels_vector)
            K(k) == _reduction_kernels_vector[k].call
        IN  /\ n = _num_of_stages /\ n >= 1
            /\ K(1).input = InputRef
            /\ K(n).output = OutputRef
            /\ \A k \in 2..n : K(k).input = K(k - 1).output
            /\ \A k \in 1..(n - 1) : K(k).output = [t |-> "sums", i |-> k - 1]

C11_Witness ==
    /\ ConfiguredOk /\ Staged(input, cfgArgs.axis)
    /\ _num_of_stages = 4
    /\ _reduction_kernels_vector[3].call.input = [t |-> "sums", i |-> 1]
    /\ _reduction_kernels_vector[3].call.output = [t |-> "sums", i |-> 2]
    /\ _reduction_kernels_vector[4].call.output = OutputRef

\* C12 as stated: on the staged path the stage count is 2 or 3 for every
\* axis-0 extent.
C12_TwoOrThreeStages ==
    (Planned /\ Staged(planInput, planAxis)) => planResult.num_of_stages \in {2, 3}

\* C12 as amended: on the staged path the stage count is at least 2, it is 2
\* or 3 exactly for the axis-0 extents up to 32640, and from 32641 on it is 4
\* or more: the count is not capped.
C12_StagesNotCapped ==
    (Planned /\ Staged(planInput, planAxis)) =>
        /\ planResult.num_of_stages >= 2
        /\ (planResult.num_of_stages \in {2, 3}) <=> (planInput.shape[1] <= 32640)

C12_Witness ==
    /\ Planned /\ Staged(planInput, planAxis)
    /\ planInput.shape[1] = 32641
    /\ planResult.num_of_stages = 4

\* The tensor stage i (0-based) reads.
StageInput(i) == IF i = 0 THEN InputRef ELSE [t |-> "sums", i |-> i - 1]

\* C13: validate checks the stages in ascending order and stops at the first
\* kernel validation that fails, returning its status unchanged; it returns
\* success only after all stage_count validations succeeded. On the single
\* stage path it returns the status of the one kernel validation.
C13_ValidateShortCircuit ==
    (Validated /\ vResult.status # NotSupported) =>
        LET made == Len(vResult.calls)
            Verdict(k) == KernelValidate(vResult.calls[k], unsupportedExtents)
        IN  /\ made >= 1 /\ made <= vResult.num_of_stages
            /\ \A k \in 1..made : vResult.calls[k].input = StageInput(k - 1)
            /\ \A k \in 1..(made - 1) : Verdict(k) = "OK"
            /\ vResult.status = Verdict(made)
            /\ vResult.status = "OK" => made = vResult.num_of_stages
            /\ ~Staged(input, vArgs.axis) => made = 1

\* A middle stage fails: stage 1 of 4, stages 2 and 3 are not validated.
C13_Witness ==
    /\ Validated /\ Staged(input, vArgs.axis)
    /\ vResult.num_of_stages = 4
    /\ Len(vResult.calls) = 2
    /\ vResult.status = "SHAPE_MISMATCH"

\* The positions in the most recent configure's calls of call on index i.
LogPositions(call, i) ==
    {k \in 1..Len(cfgLog) : cfgLog[k] = [call |-> call, i |-> i]}
Once(S) == Cardinality(S) = 1
Before(S, T) == \A a \in S, b \in T : a < b

\* C14: in a staged configure every intermediate tensor b is, once each and in
\* this order, registered with the memory group, made the output of its
\* producer kernel b, made the input of its consumer kernel b + 1, and
\* allocated; when configure returns all of them are registered and allocated.
C14_BufferLifecycle ==
    (ConfiguredOk /\ Staged(input, cfgArgs.axis)) =>
        \A b \in 0..(_num_of_stages - 2) :
            /\ Once(LogPositions("manage", b))
            /\ Once(LogPositions("kernel.configure", b))
            /\ Once(LogPositions("kernel.configure", b + 1))
            /\ Once(LogPositions("allocate", b))
            /\ Before(LogPositions("manage", b), LogPositions("kernel.configure", b))
            /\ Before(LogPositions("kernel.configure", b),
                      LogPositions("kernel.configure", b + 1))
            /\ Before(LogPositions("kernel.configure", b + 1),
                      LogPositions("allocate", b))
            /\ _reduction_kernels_vector[b + 1].call.output = [t |-> "sums", i |-> b]
            /\ _reduction_kernels_vector[b + 2].call.input = [t |-> "sums", i |-> b]
            /\ _sums_vector[b + 1].managed
            /\ _sums_vector[b + 1].allocated

C14_Witness ==
    /\ ConfiguredOk /\ Staged(input, cfgArgs.axis)
    /\ _num_of_stages = 4
    /\ \A b \in 0..2 : _sums_vector[b + 1].managed /\ _sums_vector[b + 1].allocated
    /\ Before(LogPositions("kernel.configure", 2), LogPositions("allocate", 1))

\* C20: in a staged configure of three or more stages, for every middle stage
\* i the output tensor i is registered with the memory group before the input
\* tensor i - 1 is allocated.
C20_ManageBeforeAllocate ==
    (ConfiguredOk /\ Staged(input, cfgArgs.axis)) =>
        \A i \in 1..(_num_of_stages - 2) :
            /\ LogPositions("manage", i) # {}
            /\ LogPositions("allocate", i - 1) # {}
            /\ Before(LogPositions("manage", i), LogPositions("allocate", i - 1))

C20_Witness ==
    /\ ConfiguredOk /\ Staged(input, cfgArgs.axis)
    /\ _num_of_stages = 4
    /\ Before(LogPositions("manage", 2), LogPositions("allocate", 1))
    /\ LogPositions("manage", 2) # {} /\ LogPositions("allocate", 1) # {}

\* C16: on the staged path the tensor the last stage reads, the last of the
\* stage count - 1 intermediate tensors, has an axis-0 extent of at most 128:
\* the last stage has one work-group.
C16_LastStageOneWG ==
    (Planned /\ Staged(planInput, planAxis)) =>
        /\ Len(planResult.shapes) = planResult.num_of_stages - 1
        /\ Len(planResult.shapes) >= 1
        /\ planResult.shapes[Len(planResult.shapes)][1] <= 128

C16_Witness ==
    /\ Planned /\ Staged(planInput, planAxis)
    /\ planInput.shape[1] = 16385
    /\ planResult.num_of_stages = 3
    /\ planResult.shapes[1][1] = 129
    /\ planResult.shapes[2][1] = 2

\* An index into _sums_vector (n - 1 tensors) and one into the kernel and
\* border arrays (n elements).
SumIndexOk(i, n) == 0 <= i /\ i <= n - 2
StageIndexOk(i, n) == 0 <= i /\ i <= n - 1
RefOk(ref, n) == ref.t = "sums" => SumIndexOk(ref.i, n)

\* C17: the stage count is at least 1, and at least 2 on the staged path (also
\* for the extents 0 and 1), so every index configure and validate use into
\* the intermediate tensors lies in 0..n-2 and every kernel and border index
\* in 0..n-1.
C17_IndicesInRange ==
    /\ Configured =>
        /\ _num_of_stages >= 1
        /\ Staged(input, cfgArgs.axis) => _num_of_stages >= 2
        /\ \A k \in 1..Len(cfgLog) :
              IF cfgLog[k].call \in {"init", "manage", "allocate"}
              THEN SumIndexOk(cfgLog[k].i, _num_of_stages)
              ELSE StageIndexOk(cfgLog[k].i, _num_of_stages)
        /\ \A k \in 1..Len(_reduction_kernels_vector) :
              /\ RefOk(_reduction_kernels_vector[k].call.input, _num_of_stages)
              /\ RefOk(_reduction_kernels_vector[k].call.output, _num_of_stages)
        /\ Staged(input, cfgArgs.axis) =>
              \A k \in 1..Len(_border_handlers_vector) :
                  RefOk(_border_handlers_vector[k].tensor, _num_of_stages)
    /\ Validated =>
        /\ vResult.num_of_stages >= 1
        /\ Staged(input, vArgs.axis) => vResult.num_of_stages >= 2
        /\ \A k \in 1..Len(vResult.calls) :
              /\ RefOk(vResult.calls[k].input, vResult.num_of_stages)
              /\ RefOk(vResult.calls[k].output, vResult.num_of_stages)

C17_Witness ==
    /\ ConfiguredOk /\ Staged(input, cfgArgs.axis)
    /\ input.shape[1] = 0
    /\ _num_of_stages = 2
    /\ Len(_sums_vector) = 1
    /\ _reduction_kernels_vector[2].call.input = [t |-> "sums", i |-> 0]
    /\ LogPositions("allocate", 0) # {}
    /\ vArgs = cfgArgs /\ Len(vResult.calls) = 2

\* The device takes the head of the queue in this step.
Executes == Len(queue') < Len(queue)

\* C15: when the device, executing in the order of submission, comes to the
\* kernel of a stage i >= 1, the last work it executed is stage i's border
\* handler on that kernel's input and the one before is the kernel of stage
\* i-1, whose output that input is; run itself waited for neither.
C15_StageOrderOnDevice ==
    [][(Executes /\ Head(queue).kind = "kernel" /\ Head(queue).stage >= 1) =>
          LET k == Head(queue)
              n == Len(executed)
          IN  /\ ~k.blocking
              /\ n >= 2
              /\ executed[n].kind = "border"
              /\ executed[n].stage = k.stage
              /\ executed[n].work.input = k.work.input
              /\ executed[n - 1].kind = "kernel"
              /\ executed[n - 1].stage = k.stage - 1
              /\ executed[n - 1].work.output = k.work.input]_vars

C15_Witness ==
    /\ ConfiguredOk /\ _num_of_stages = 4
    /\ ~_memory_group.acquired
    /\ Len(executed) = 2
    /\ executed[1].kind = "kernel" /\ executed[1].stage = 2
    /\ executed[2].kind = "border" /\ executed[2].stage = 3
    /\ Len(queue) = 1
    /\ queue[1].kind = "kernel" /\ queue[1].stage = 3
    /\ queue[1].work.input = executed[1].work.output

\* What one run would submit in the current state.
WouldSubmit == run([log |-> << >>, queue |-> << >>, acquired |-> FALSE]).queue

\* The most recent configure configured this submission's kernel or border
\* handler, and the submission is that element's work.
FromLastConfigure(s) ==
    IF s.kind = "kernel"
    THEN /\ LogPositions("kernel.configure", s.stage) # {}
         /\ _reduction_kernels_vector[s.stage + 1].configured
         /\ s.work = _reduction_kernels_vector[s.stage + 1].call
    ELSE /\ LogPositions("border.configure", s.stage) # {}
         /\ _border_handlers_vector[s.stage + 1].configured
         /\ s.work = BorderWork(_border_handlers_vector[s.stage + 1])

\* C18: after any sequence of successful configure calls, staged or not, the
\* path test of run agrees with the one the most recent configure used, the
\* stored stage count is the one that configure computed, and a run submits
\* only kernels and border handlers that configure configured.
C18_RunFollowsLastConfigure ==
    ConfiguredOk =>
        /\ RunPath <=> Staged(input, cfgArgs.axis)
        /\ _reduction_axis = cfgArgs.axis
        /\ _is_quantized <=> (input.data_type = "QASYMM8")
        /\ _num_of_stages = IF Staged(input, cfgArgs.axis)
                            THEN CeilDiv(input.shape[1], 128) \div 128 + 2
                            ELSE 1
        /\ Len(_reduction_kernels_vector) = _num_of_stages
        /\ Len(WouldSubmit) = IF Staged(input, cfgArgs.axis)
                              THEN 2 * _num_of_stages ELSE 1
        /\ \A k \in 1..Len(WouldSubmit) : FromLastConfigure(WouldSubmit[k])

C18_Witness ==
    /\ ConfiguredOk /\ ~Staged(input, cfgArgs.axis)
    /\ Len(_sums_vector) = 3 /\ Len(_border_handlers_vector) = 4
    /\ _num_of_stages = 1
    /\ runLog = << [call |-> "acquire", i |-> 0], [call |-> "kernel", i |-> 0],
                   [call |-> "release", i |-> 0] >>
    /\ Len(queue) = 1
    /\ queue[1].work.input = InputRef /\ queue[1].work.output = OutputRef

\* The work a step adds at the end of the queue.
IssuedWork == SubSeq(queue', Len(queue) + 1, Len(queue'))

\* C19: a run leaves the stage count, the stored axis and quantized flag, the
\* kernels, the border handlers and the intermediate tensors (their managed
\* and allocated state included) as they were, calls no manage and no
\* allocate, and returns with the memory group released; so the next run
\* submits the same sequence again.
C19_RunFrame ==
    [][(Configured /\ Len(queue') > Len(queue)) =>
          /\ UNCHANGED << _num_of_stages, _reduction_axis, _is_quantized,
                          _sums_vector, _reduction_kernels_vector,
                          _border_handlers_vector, cfgArgs, cfgLog >>
          /\ \A k \in 1..Len(runLog') :
                runLog'[k].call \in {"acquire", "border", "kernel", "release"}
          /\ ~_memory_group'.acquired
          /\ IssuedWork = WouldSubmit
          /\ IssuedWork = WouldSubmit']_vars

C19_Witness ==
    /\ ConfiguredOk /\ Staged(input, cfgArgs.axis)
    /\ _num_of_stages = 2
    /\ \A i \in 1..Len(_sums_vector) : _sums_vector[i].allocated
    /\ ~_memory_group.acquired
    /\ Len(queue) = 5
    /\ queue[1] = queue[5]
    /\ queue[1].kind = "kernel" /\ queue[1].stage = 1

====
